---- MODULE Spec2Model ----
(***************************************************************************)
(* Model of Usability.py: a Streamlit usability-testing tool.  Four CSV    *)
(* tables are appended to by form handlers (save_to_csv) and read back in  *)
(* full by the Report tab (load_from_csv); a stopwatch lives in            *)
(* st.session_state.  Every button press reruns main(): the handler of the *)
(* pressed button runs, then the Report tab is rendered again.             *)
(***************************************************************************)
EXTENDS Integers, Sequences, FiniteSets, TLC

VARIABLES
    now,            \* the wall clock read by time.time() / time.strftime()
    files,          \* the data folder: path -> [exists, lines]
    session_state,  \* st.session_state: a mapping with keys start_time, task_duration
    msg,            \* the st.warning / st.success / st.info of the last handler
    pressed,        \* the button whose press caused the last rerun (for Submit
                    \* Consent together with the state of the checkbox)
    report,         \* what the Report tab showed in the last rerun, per table
    log,            \* history: the data_dicts passed to save_to_csv, per path
    stopped,        \* history: duration computed by a Stop since the last Save
    pc,             \* concurrent sessions: position inside save_to_csv
    handle,         \* concurrent sessions: the open file handle (mode, pos)
    pending,        \* concurrent sessions: the data_dict being saved
    done            \* concurrent sessions: data_dicts whose save_to_csv returned

vars == <<now, files, session_state, msg, pressed, report, log, stopped,
          pc, handle, pending, done>>

uiVars == <<now, files, session_state, msg, pressed, report, log, stopped>>
concVars == <<pc, handle, pending, done>>

----------------------------------------------------------------------------
(* Bounds *)

MaxTime == 1        \* the clock runs over 0..MaxTime
MaxSaves == 2       \* total number of records appended in one behaviour
MaxConcSaves == 2   \* save_to_csv calls per concurrent session

----------------------------------------------------------------------------
(* Paths *)

CONSENT_CSV == "data/consent_data.csv"
DEMOGRAPHIC_CSV == "data/demographic_data.csv"
TASK_CSV == "data/task_data.csv"
EXIT_CSV == "data/exit_data.csv"

Paths == {CONSENT_CSV, DEMOGRAPHIC_CSV, TASK_CSV, EXIT_CSV}

----------------------------------------------------------------------------
(* Scalar values of a data_dict / of a loaded DataFrame cell *)

Text(s) == [k |-> "text", s |-> s, n |-> 0]
IntV(n) == [k |-> "int", s |-> "", n |-> n]
FloatV(n) == [k |-> "float", s |-> "", n |-> n]
BoolV(b) == [k |-> "bool", s |-> IF b THEN "True" ELSE "False", n |-> 0]
NaN == [k |-> "nan", s |-> "", n |-> 0]

Digit == <<"0", "1", "2", "3", "4", "5", "6", "7", "8", "9">>

RECURSIVE IntStr(_)
IntStr(n) == IF n < 10 THEN Digit[n + 1]
             ELSE IntStr(n \div 10) \o Digit[(n % 10) + 1]

FloatStr(n) == IntStr(n) \o ".0"

\* time.strftime("%Y-%m-%d %H:%M:%S") of the clock reading t (t < 60)
TimeStr(t) == "2025-01-01 00:00:" \o (IF t < 10 THEN "0" ELSE "") \o IntStr(t)

\* the text DataFrame.to_csv writes for one value
CellText(v) ==
    CASE v.k = "text" -> v.s
      [] v.k = "int" -> IntStr(v.n)
      [] v.k = "float" -> FloatStr(v.n)
      [] v.k = "bool" -> v.s
      [] OTHER -> ""

\* numbers read_csv has to recognise in this model
NumDomain == 0..(MaxTime + 9)

\* the texts of those numbers, and the number each text denotes
IntTexts == {IntStr(n) : n \in NumDomain}
FloatTexts == {FloatStr(n) : n \in NumDomain}
NumOfText == [s \in IntTexts \cup FloatTexts |->
                CHOOSE n \in NumDomain : IntStr(n) = s \/ FloatStr(n) = s]

IsIntText(s) == s \in IntTexts
IsFloatText(s) == s \in FloatTexts
ParseInt(s) == NumOfText[s]
ParseNum(s) == NumOfText[s]
IsBoolText(s) == s \in {"True", "False"}

----------------------------------------------------------------------------
(* The record store *)

Absent == [exists |-> FALSE, lines |-> <<>>]

\* pd.DataFrame(): no columns, no rows
EmptyFrame == [columns |-> <<>>, rows |-> <<>>, error |-> "none"]

\* DataFrame.empty
IsEmpty(df) == Len(df.columns) = 0 \/ Len(df.rows) = 0

\* one line of the file: the cell texts of a record, in the order supplied
RowLine(data_dict) == [j \in 1..Len(data_dict.vals) |-> CellText(data_dict.vals[j])]

\* the lines to_csv produces with header=True / header=False
HeaderAndRow(data_dict) == <<data_dict.keys, RowLine(data_dict)>>
\* variant: the append branch passes header=True as well
RowOnly_WithHeader(data_dict) == <<data_dict.keys, RowLine(data_dict)>>
RowOnly(data_dict) == <<RowLine(data_dict)>>

\* df_new.to_csv(csv_file, mode='w', header=True, index=False)
to_csv_w(data_dict) ==
    [exists |-> TRUE, lines |-> HeaderAndRow(data_dict)]

\* variant: the append branch opens the file with mode='w'
to_csv_a_Truncating(file, data_dict) ==
    [exists |-> TRUE, lines |-> RowOnly(data_dict)]

\* df_new.to_csv(csv_file, mode='a', header=False, index=False)
to_csv_a(file, data_dict) ==
    [exists |-> TRUE, lines |-> file.lines \o RowOnly(data_dict)]

save_to_csv(data_dict, file) ==
    IF ~file.exists THEN to_csv_w(data_dict) ELSE to_csv_a(file, data_dict)

\* dtype pandas infers for one column from the texts of its cells
ColumnKind(cells) ==
    LET nonNA == {cells[i] : i \in {x \in 1..Len(cells) : cells[x] # ""}}
        hasNA == \E i \in 1..Len(cells) : cells[i] = ""
    IN  IF nonNA = {} THEN "float"
        ELSE IF \A s \in nonNA : IsIntText(s)
             THEN (IF hasNA THEN "float" ELSE "int")
        ELSE IF \A s \in nonNA : IsIntText(s) \/ IsFloatText(s) THEN "float"
        ELSE IF \A s \in nonNA : IsBoolText(s) THEN "bool"
        ELSE "text"

ParseCell(kind, s) ==
    IF s = "" THEN NaN
    ELSE CASE kind = "int" -> IntV(ParseInt(s))
           [] kind = "float" -> FloatV(ParseNum(s))
           [] kind = "bool" -> BoolV(s = "True")
           [] OTHER -> Text(s)

\* pd.read_csv(csv_file): first line is the header, an empty cell is NaN,
\* every column is converted to the dtype inferred from all of its cells
read_csv(file) ==
    IF Len(file.lines) = 0
    THEN [columns |-> <<>>, rows |-> <<>>, error |-> "EmptyDataError"]
    ELSE LET header == file.lines[1]
             body == Tail(file.lines)
             col(j) == [i \in 1..Len(body) |-> body[i][j]]
             kind == [j \in 1..Len(header) |-> ColumnKind(col(j))]
         IN  [columns |-> header,
              rows |-> [i \in 1..Len(body) |->
                          [j \in 1..Len(header) |-> ParseCell(kind[j], body[i][j])]],
              error |-> "none"]

\* variant: no os.path.isfile test before the read
load_from_csv_NoIsFile(file) == read_csv(file)

load_from_csv(file) ==
    IF file.exists THEN read_csv(file) ELSE EmptyFrame

\* the column of a frame under a field name (rows without it give NaN)
ColIndex(df, name) == CHOOSE j \in 1..Len(df.columns) : df.columns[j] = name
Cell(df, i, name) == df.rows[i][ColIndex(df, name)]

----------------------------------------------------------------------------
(* The data_dict of each form *)

ConsentDict(t, consent_given) ==
    [keys |-> <<"timestamp", "consent_given">>,
     vals |-> <<Text(TimeStr(t)), BoolV(consent_given)>>]

DemographicDict(t, name, country, age, occupation, familiarity) ==
    [keys |-> <<"timestamp", "name", "country", "age", "occupation", "familiarity">>,
     vals |-> <<Text(TimeStr(t)), Text(name), Text(country), IntV(age),
                Text(occupation), Text(familiarity)>>]

\* session_state.get("task_duration", None); None is modelled as the empty tuple
None == <<>>
Get(state, key) == IF key \in DOMAIN state THEN <<state[key]>> ELSE None

\* Python truthiness of duration_val: None and 0.0 are false
Truthy(duration_val) == duration_val # None /\ duration_val[1] # 0

\* "duration_seconds": duration_val if duration_val else ""
DurationField(duration_val) ==
    IF Truthy(duration_val) THEN FloatV(duration_val[1]) ELSE Text("")

TaskDict(t, name2, selected_task, success, duration_val, confidence, notes) ==
    [keys |-> <<"timestamp", "user", "task_name", "success", "duration_seconds",
                "confidence_rating", "notes">>,
     vals |-> <<Text(TimeStr(t)), Text(name2), Text(selected_task), Text(success),
                DurationField(duration_val), IntV(confidence), Text(notes)>>]

ExitDict(t, satisfaction, difficulty, open_feedback) ==
    [keys |-> <<"timestamp", "satisfaction", "difficulty", "open_feedback">>,
     vals |-> <<Text(TimeStr(t)), FloatV(satisfaction), FloatV(difficulty),
                Text(open_feedback)>>]

\* the values the widgets offer (bounded selections of them)
Names == {"", "ann"}
DemographicNames == {"7"}
TaskNames == <<"Authorize App">>
SuccessChoices == {"Yes", "No"}
StatusOrder == <<"Yes", "Partial", "No">>
Ages == {0}
Difficulties == {1, 2}
Satisfactions == {5}

----------------------------------------------------------------------------
(* The Report tab *)

IdxSet(df, name, value) ==
    {i \in 1..Len(df.rows) : Cell(df, i, name) = Text(value)}

RECURSIVE SumOver(_, _, _)
SumOver(df, name, idx) ==
    IF idx = {} THEN 0
    ELSE LET i == CHOOSE x \in idx : TRUE
         IN  Cell(df, i, name).n + SumOver(df, name, idx \ {i})

RECURSIVE SumProd(_, _, _, _)
SumProd(df, a, b, idx) ==
    IF idx = {} THEN 0
    ELSE LET i == CHOOSE x \in idx : TRUE
         IN  Cell(df, i, a).n * Cell(df, i, b).n + SumProd(df, a, b, idx \ {i})

\* Series.mean() over the rows idx: NaN cells are skipped; cnt = 0 is a NaN mean
Mean(df, name, idx, label) ==
    LET present == {i \in idx : Cell(df, i, name).k # "nan"}
    IN  [label |-> label, sum |-> SumOver(df, name, present), cnt |-> Cardinality(present)]

RECURSIVE SelectSeq2(_, _)
SelectSeq2(seq, keep) ==
    IF seq = <<>> THEN <<>>
    ELSE (IF Head(seq) \in keep THEN <<Head(seq)>> ELSE <<>>) \o SelectSeq2(Tail(seq), keep)

\* lines 187-218: the Task section for a non-empty frame
TaskStats(df) ==
    LET presentTasks == {Cell(df, i, "task_name").s : i \in 1..Len(df.rows)}
        tasks == SelectSeq2(TaskNames, presentTasks)
        avg_duration_by_task ==
            [g \in 1..Len(tasks) |->
                Mean(df, "duration_seconds", IdxSet(df, "task_name", tasks[g]), tasks[g])]
        avg_duration ==
            [g \in 1..Len(StatusOrder) |->
                Mean(df, "duration_seconds", IdxSet(df, "success", StatusOrder[g]),
                     StatusOrder[g])]
    IN  avg_duration_by_task \o avg_duration

\* lines 224-246: the Exit section for a non-empty frame; the fitted slope is
\* sum / cnt of the "Best Fit" entry, cnt = 0 being the rank-deficient fit
ExitStats(df) ==
    LET all == 1..Len(df.rows)
        n == Len(df.rows)
        sx == SumOver(df, "difficulty", all)
        sy == SumOver(df, "satisfaction", all)
        sxy == SumProd(df, "difficulty", "satisfaction", all)
        sxx == SumProd(df, "difficulty", "difficulty", all)
    IN  << [label |-> "Best Fit", sum |-> n * sxy - sx * sy, cnt |-> n * sxx - sx * sx],
           Mean(df, "satisfaction", all, "Average Satisfaction"),
           Mean(df, "difficulty", all, "Average Difficulty") >>

NotRendered == [outcome |-> "not rendered", df |-> EmptyFrame, stats |-> <<>>]

Section(path, df) ==
    IF IsEmpty(df) THEN [outcome |-> "no data available", df |-> df, stats |-> <<>>]
    ELSE [outcome |-> "shown", df |-> df,
          stats |-> CASE path = TASK_CSV -> TaskStats(df)
                      [] path = EXIT_CSV -> ExitStats(df)
                      [] OTHER -> <<>>]

\* with report: every expander loads its table and renders it
RenderReport(fs) == [p \in Paths |-> Section(p, load_from_csv(fs[p]))]

----------------------------------------------------------------------------
(* The session: one browser session, every rerun of main() is one step *)

Sessions == {1, 2}
NoHandle == [mode |-> "none", pos |-> 0]

Put(state, key, value) ==
    [x \in DOMAIN state \cup {key} |-> IF x = key THEN value ELSE state[x]]
Del(state, key) == [x \in DOMAIN state \ {key} |-> state[x]]
EmptyState == [x \in {} |-> 0]

RECURSIVE TotalRows(_, _)
TotalRows(l, ps) ==
    IF ps = {} THEN 0
    ELSE LET p == CHOOSE x \in ps : TRUE IN Len(l[p]) + TotalRows(l, ps \ {p})

CanSave == TotalRows(log, Paths) < MaxSaves

Init ==
    /\ now = 0
    /\ files = [p \in Paths |-> Absent]
    /\ session_state = EmptyState
    /\ msg = "none"
    /\ pressed = "none"
    /\ report = [p \in Paths |-> NotRendered]
    /\ log = [p \in Paths |-> <<>>]
    /\ stopped = None
    /\ pc = [s \in Sessions |-> "idle"]
    /\ handle = [s \in Sessions |-> NoHandle]
    /\ pending = [s \in Sessions |-> None]
    /\ done = [s \in Sessions |-> <<>>]

\* the clock advances between reruns
Tick ==
    /\ now < MaxTime
    /\ now' = now + 1
    /\ UNCHANGED <<files, session_state, msg, pressed, report, log, stopped>>
    /\ UNCHANGED concVars

\* a handler's call of save_to_csv, followed by the Report tab of the same rerun
SaveAndRender(data_dict, path) ==
    /\ files' = [files EXCEPT ![path] = save_to_csv(data_dict, files[path])]
    /\ log' = [log EXCEPT ![path] = Append(log[path], data_dict)]
    /\ report' = RenderReport(files')

\* a rerun in which no button is pressed (page load, widget change)
Rerun ==
    /\ pressed' = "none"
    /\ msg' = "none"
    /\ report' = RenderReport(files)
    /\ UNCHANGED <<now, files, session_state, log, stopped>>
    /\ UNCHANGED concVars

ConsentWarning == "warning: You must agree to the consent terms before proceeding."

\* variant: the record is saved whatever the checkbox says
SubmitConsent_NoCheck ==
    \E consent_given \in BOOLEAN :
        /\ pressed' = IF consent_given THEN "Submit Consent (checked)"
                                        ELSE "Submit Consent (unchecked)"
        /\ CanSave
        /\ SaveAndRender(ConsentDict(now, consent_given), CONSENT_CSV)
        /\ msg' = "success: Your consent has been recorded. Thank you!"
        /\ UNCHANGED <<now, session_state, stopped>>
        /\ UNCHANGED concVars

\* lines 66-77
SubmitConsent ==
    \E consent_given \in BOOLEAN :
        /\ pressed' = IF consent_given THEN "Submit Consent (checked)"
                                        ELSE "Submit Consent (unchecked)"
        /\ IF ~consent_given
           THEN /\ msg' = ConsentWarning
                /\ report' = RenderReport(files)
                /\ UNCHANGED <<files, log>>
           ELSE /\ CanSave
                /\ SaveAndRender(ConsentDict(now, consent_given), CONSENT_CSV)
                /\ msg' = "success: Your consent has been recorded. Thank you!"
        /\ UNCHANGED <<now, session_state, stopped>>
        /\ UNCHANGED concVars

\* lines 82-100
SubmitDemographics ==
    \E name \in DemographicNames, country \in {""}, age \in Ages :
        /\ CanSave
        /\ pressed' = "Submit Demographics"
        /\ SaveAndRender(DemographicDict(now, name, country, age, "dev", "Not Familiar"),
                         DEMOGRAPHIC_CSV)
        /\ msg' = "success: Demographic data saved."
        /\ UNCHANGED <<now, session_state, stopped>>
        /\ UNCHANGED concVars

\* variant: a Start while Running keeps the earlier start time
StartTaskTimer_KeepFirst ==
    /\ pressed' = "Start Task Timer"
    /\ session_state' = IF "start_time" \in DOMAIN session_state THEN session_state
                        ELSE Put(session_state, "start_time", now)
    /\ msg' = "info: Task timer started."
    /\ report' = RenderReport(files)
    /\ UNCHANGED <<now, files, log, stopped>>
    /\ UNCHANGED concVars

\* lines 116-118
StartTaskTimer ==
    /\ pressed' = "Start Task Timer"
    /\ session_state' = Put(session_state, "start_time", now)
    /\ msg' = "info: Task timer started."
    /\ report' = RenderReport(files)
    /\ UNCHANGED <<now, files, log, stopped>>
    /\ UNCHANGED concVars

\* variant: Stop is not gated on start_time, a missing one counts as 0
StopTaskTimer_NoGuard ==
    /\ pressed' = "Stop Task Timer"
    /\ LET start == IF "start_time" \in DOMAIN session_state
                    THEN session_state["start_time"] ELSE 0
           duration == now - start
       IN  /\ session_state' =
                  Del(Put(session_state, "task_duration", duration), "start_time")
           /\ stopped' = <<duration>>
           /\ msg' = "success: Task completed"
    /\ report' = RenderReport(files)
    /\ UNCHANGED <<now, files, log>>
    /\ UNCHANGED concVars

\* lines 120-124
StopTaskTimer ==
    /\ pressed' = "Stop Task Timer"
    /\ IF "start_time" \in DOMAIN session_state
       THEN LET duration == now - session_state["start_time"]
            IN  /\ session_state' =
                       Del(Put(session_state, "task_duration", duration), "start_time")
                /\ stopped' = <<duration>>
                /\ msg' = "success: Task completed"
       ELSE /\ msg' = "none"
            /\ UNCHANGED <<session_state, stopped>>
    /\ report' = RenderReport(files)
    /\ UNCHANGED <<now, files, log>>
    /\ UNCHANGED concVars

\* lines 130-147
SaveTaskResults ==
    \E name2 \in Names, t \in 1..Len(TaskNames), success \in SuccessChoices :
        /\ CanSave
        /\ pressed' = "Save Task Results"
        /\ LET duration_val == Get(session_state, "task_duration")
           IN  SaveAndRender(TaskDict(now, name2, TaskNames[t], success, duration_val, 3, ""),
                             TASK_CSV)
        /\ msg' = "success: Task data saved."
        /\ session_state' = Del(Del(session_state, "start_time"), "task_duration")
        /\ stopped' = None
        /\ UNCHANGED now
        /\ UNCHANGED concVars

\* lines 152-166
SubmitExit ==
    \E satisfaction \in Satisfactions, difficulty \in Difficulties :
        /\ CanSave
        /\ pressed' = "Submit Exit Questionnaire"
        /\ SaveAndRender(ExitDict(now, satisfaction, difficulty, ""), EXIT_CSV)
        /\ msg' = "success: Exit questionnaire data saved."
        /\ UNCHANGED <<now, session_state, stopped>>
        /\ UNCHANGED concVars

Next ==
    \/ Tick
    \/ Rerun
    \/ SubmitConsent
    \/ SubmitDemographics
    \/ StartTaskTimer
    \/ StopTaskTimer
    \/ SaveTaskResults
    \/ SubmitExit

Spec == Init /\ [][Next]_vars

----------------------------------------------------------------------------
(* Sessions of several browsers run main() in threads of one process and  *)
(* share the data folder.  save_to_csv is then three steps: the isfile    *)
(* test, the open inside to_csv, and the write flushed when to_csv closes *)
(* the handle.  Lines are the unit of a write.                            *)

\* variant: the write inserts at the offset instead of overwriting
WriteAt_Insert(lines, pos, new) ==
    SubSeq(lines, 1, pos) \o new \o SubSeq(lines, pos + 1, Len(lines))

\* a write of new lines through a handle positioned at line offset pos
WriteAt(lines, pos, new) ==
    SubSeq(lines, 1, pos) \o new \o SubSeq(lines, pos + Len(new) + 1, Len(lines))

\* a session submits the Exit form: main() reaches the save_to_csv call
ConcSubmit(s) ==
    \E satisfaction \in Satisfactions, difficulty \in Difficulties :
        /\ pc[s] = "idle"
        /\ Len(done[s]) < MaxConcSaves
        /\ pending' = [pending EXCEPT ![s] = <<ExitDict(now, satisfaction, difficulty, "")>>]
        /\ pc' = [pc EXCEPT ![s] = "isfile"]
        /\ UNCHANGED <<handle, done>>
        /\ UNCHANGED uiVars

\* line 22: if not os.path.isfile(csv_file)
ConcIsFile(s) ==
    /\ pc[s] = "isfile"
    /\ pc' = [pc EXCEPT ![s] = IF ~files[EXIT_CSV].exists THEN "open_w" ELSE "open_a"]
    /\ UNCHANGED <<handle, pending, done>>
    /\ UNCHANGED uiVars

\* lines 23, 25: to_csv opens the file; mode 'w' creates or truncates it
ConcOpen(s) ==
    /\ pc[s] \in {"open_w", "open_a"}
    /\ IF pc[s] = "open_w"
       THEN /\ files' = [files EXCEPT ![EXIT_CSV] = [exists |-> TRUE, lines |-> <<>>]]
            /\ handle' = [handle EXCEPT ![s] = [mode |-> "w", pos |-> 0]]
       ELSE /\ files' = [files EXCEPT ![EXIT_CSV].exists = TRUE]
            /\ handle' = [handle EXCEPT ![s] = [mode |-> "a", pos |-> 0]]
    /\ pc' = [pc EXCEPT ![s] = "write"]
    /\ UNCHANGED <<pending, done>>
    /\ UNCHANGED <<now, session_state, msg, pressed, report, log, stopped>>

\* lines 23, 25: to_csv writes and closes; mode 'a' always writes at the end
ConcWrite(s) ==
    /\ pc[s] = "write"
    /\ LET data_dict == pending[s][1]
           old == files[EXIT_CSV].lines
       IN  files' = [files EXCEPT ![EXIT_CSV].lines =
                        IF handle[s].mode = "w"
                        THEN WriteAt(old, handle[s].pos, HeaderAndRow(data_dict))
                        ELSE old \o RowOnly(data_dict)]
    /\ done' = [done EXCEPT ![s] = Append(done[s], pending[s][1])]
    /\ pending' = [pending EXCEPT ![s] = None]
    /\ handle' = [handle EXCEPT ![s] = NoHandle]
    /\ pc' = [pc EXCEPT ![s] = "idle"]
    /\ UNCHANGED <<now, session_state, msg, pressed, report, log, stopped>>

NextConc ==
    \/ \E s \in Sessions : ConcSubmit(s)
    \/ \E s \in Sessions : ConcIsFile(s)
    \/ \E s \in Sessions : ConcOpen(s)
    \/ \E s \in Sessions : ConcWrite(s)

SpecConc == Init /\ [][NextConc]_vars

----------------------------------------------------------------------------
(* Properties of the record store under a single writer *)

\* a step in which main() was rerun by a press of button b
Pressed(b) == pressed' = b /\ now' = now

LastRow(l) == l[Len(l)]
FieldOf(data_dict, name) ==
    data_dict.vals[CHOOSE j \in 1..Len(data_dict.keys) : data_dict.keys[j] = name]

ReadsBackAs(a, v) ==
    IF a = Text("") THEN v = NaN
    ELSE IF a.k = "text" /\ (IsIntText(a.s) \/ IsFloatText(a.s))
         THEN \/ v = Text(a.s)
              \/ v.k \in {"int", "float"} /\ v.n = NumOfText[a.s]
    ELSE IF a.k = "text" /\ IsBoolText(a.s)
         THEN v \in {Text(a.s), BoolV(a.s = "True")}
    ELSE v = a

C2_HeaderWrittenOnce ==
    \A p \in Paths :
        Len(log[p]) > 0 =>
            /\ files[p].exists
            /\ Len(files[p].lines) = Len(log[p]) + 1
            /\ files[p].lines[1] = log[p][1].keys
            /\ files[p].lines[2] = RowLine(log[p][1])
            /\ \A i \in 2..Len(files[p].lines) : files[p].lines[i] # files[p].lines[1]

\* a table that has been appended to twice
C2_Witness ==
    /\ Len(log[EXIT_CSV]) = 2
    /\ files[EXIT_CSV].lines[1] = <<"timestamp", "satisfaction", "difficulty", "open_feedback">>
    /\ Len(files[EXIT_CSV].lines) = 3

\* C3: a table never appended to is not a file; loading it gives zero rows
\* and no error, the Report shows "no data available", and the file is
\* still absent afterwards.
C3_AbsentTableLoadsEmpty ==
    \A p \in Paths :
        Len(log[p]) = 0 =>
            /\ ~files[p].exists
            /\ load_from_csv(files[p]).error = "none"
            /\ Len(load_from_csv(files[p]).rows) = 0
            /\ report[p].outcome \in {"not rendered", "no data available"}
            /\ report[p].df = EmptyFrame

\* the Report was rendered for a table never written, while another table
\* already has a record
C3_Witness ==
    /\ Len(log[TASK_CSV]) = 0
    /\ report[TASK_CSV].outcome = "no data available"
    /\ ~files[TASK_CSV].exists
    /\ Len(log[CONSENT_CSV]) = 1

\* C4: Submit Consent with the checkbox unchecked produces the warning and
\* leaves every table as it was; a Consent row is appended only by a
\* submission with the checkbox checked, and every stored row says True.
C4_UncheckedConsentWritesNothing ==
    [][ /\ Pressed("Submit Consent (unchecked)") =>
              /\ msg' = ConsentWarning
              /\ files' = files
              /\ log' = log
        /\ log'[CONSENT_CSV] # log[CONSENT_CSV] => Pressed("Submit Consent (checked)")
        /\ \A i \in 1..Len(log'[CONSENT_CSV]) :
              /\ FieldOf(log'[CONSENT_CSV][i], "consent_given") = BoolV(TRUE)
              /\ files'[CONSENT_CSV].lines[i + 1][2] = "True"
      ]_vars

\* an unchecked submission made after a consent had been recorded
C4_Witness ==
    /\ pressed = "Submit Consent (unchecked)"
    /\ msg = ConsentWarning
    /\ Len(log[CONSENT_CSV]) = 1
    /\ Len(files[CONSENT_CSV].lines) = 2

\* C9: a Report over a table with no data, over Task rows whose
\* duration_seconds are all missing, or over fewer than 2 Exit rows shows
\* "no data available", and no reported statistic is computed over no data.
C9_ReportDegradesToNoData ==
    /\ \A p \in Paths :
          report[p].outcome # "not rendered" =>
              /\ IsEmpty(report[p].df) => report[p].outcome = "no data available"
              /\ \A e \in 1..Len(report[p].stats) : report[p].stats[e].cnt # 0
    /\ LET df == report[TASK_CSV].df
       IN  (report[TASK_CSV].outcome # "not rendered"
            /\ \A i \in 1..Len(df.rows) : Cell(df, i, "duration_seconds") = NaN)
           => report[TASK_CSV].outcome = "no data available"
    /\ (report[EXIT_CSV].outcome # "not rendered" /\ Len(report[EXIT_CSV].df.rows) < 2)
           => report[EXIT_CSV].outcome = "no data available"

----------------------------------------------------------------------------
(* Properties of the session timer *)

\* C5: Save Task Results records the stored task_duration if there is one,
\* an empty duration_seconds if there is none, and leaves none stored.
C5_DurationReadOnce ==
    [][ (Pressed("Save Task Results") /\ log'[TASK_CSV] # log[TASK_CSV]) =>
            /\ FieldOf(LastRow(log'[TASK_CSV]), "duration_seconds") =
                   (IF "task_duration" \in DOMAIN session_state
                    THEN FloatV(session_state["task_duration"])
                    ELSE Text(""))
            /\ "task_duration" \notin DOMAIN session_state'
      ]_vars

\* C6: Stop Task Timer without a start_time changes nothing: no message,
\* the timer stays idle, a stored task_duration stays as it was.
C6_StopWhileIdleIsNoOp ==
    [][ (Pressed("Stop Task Timer") /\ "start_time" \notin DOMAIN session_state) =>
            /\ session_state' = session_state
            /\ msg' = "none"
            /\ files' = files
            /\ log' = log
      ]_vars

\* Stop was pressed while idle, a duration of an earlier run still stored
C6_Witness ==
    /\ pressed = "Stop Task Timer"
    /\ msg = "none"
    /\ DOMAIN session_state = {"task_duration"}
    /\ session_state["task_duration"] = 1

\* C7: Start stores the current time as start_time, replacing an earlier
\* one without a message of failure; Stop from Running stores
\* now - start_time as task_duration and removes start_time.
C7_StopStoresElapsed ==
    [][ /\ Pressed("Start Task Timer") =>
              /\ session_state' = Put(session_state, "start_time", now)
              /\ msg' = "info: Task timer started."
        /\ (Pressed("Stop Task Timer") /\ "start_time" \in DOMAIN session_state) =>
              /\ DOMAIN session_state' = {"task_duration"}
              /\ session_state'["task_duration"] = now - session_state["start_time"]
      ]_vars

\* a Stop from Running one tick after the Start
C7_Witness ==
    /\ pressed = "Stop Task Timer"
    /\ msg = "success: Task completed"
    /\ DOMAIN session_state = {"task_duration"}
    /\ session_state["task_duration"] = 1

\* C10: the row written by Save Task Results carries the duration of the
\* last Stop from Running since the previous Save, whatever its value, and
\* an empty duration_seconds only when there was no such Stop.
C10_SaveWritesStoppedDuration ==
    [][ (Pressed("Save Task Results") /\ log'[TASK_CSV] # log[TASK_CSV]) =>
            FieldOf(LastRow(log'[TASK_CSV]), "duration_seconds") =
                (IF stopped # None THEN FloatV(stopped[1]) ELSE Text(""))
      ]_vars

----------------------------------------------------------------------------
(* Properties of concurrent sessions *)

Quiescent == \A s \in Sessions : pc[s] = "idle"
====
